---- MODULE Spec2Model ----
(***************************************************************************)
(* Model of vfm_reader.py: the VfmReader class, which owns one HDF4 file   *)
(* handle (self.sd) and derives lon, lat, time, height and fcf from it.    *)
(*                                                                         *)
(* Numbers.  Packed flag words are naturals.  Altitudes are integers in    *)
(* thousandths of a kilometre (the closed-form formulas of height are      *)
(* exact in that unit).  A Profile_UTC_Time value yymmdd.ffffffff is the   *)
(* pair of its integer part and its fraction in 10^-8 days.                *)
(***************************************************************************)
EXTENDS Integers, Sequences, FiniteSets, TLC

(***************************************************************************)
(* Bounds of the model.                                                    *)
(***************************************************************************)
NRec == 2          \* footprints (rows) in every dataset of a file
MaxOps == 3        \* operations a caller performs on one reader
MaxWord == 65535   \* largest packed flag word drawn (uint16)

(***************************************************************************)
(* numpy / Python primitives used by the properties.                       *)
(***************************************************************************)
Min(a, b) == IF a < b THEN a ELSE b

\* row[lo:hi] for 0 <= lo <= hi: numpy clamps both ends to the row's length.
Slice(row, lo, hi) == SubSeq(row, Min(lo, Len(row)) + 1, Min(hi, Len(row)))

\* row[::-1]
Reverse(row) == [j \in 1..Len(row) |-> row[Len(row) + 1 - j]]

\* x >> s
RightShift(x, s) == x \div (2 ^ s)

\* x & m, bit by bit
RECURSIVE BitAnd(_, _)
BitAnd(x, m) ==
    IF x = 0 \/ m = 0 THEN 0
    ELSE (x % 2) * (m % 2) + 2 * BitAnd(x \div 2, m \div 2)

(***************************************************************************)
(* fcf: flattening of one raw row and decoding of one packed word.         *)
(***************************************************************************)
\* a shift list with field 4 one bit off
shiftsMisplaced == <<0, 3, 5, 7, 10, 12, 13>>

\* a mask list giving field 5 two bits
bitsWideField5 == <<7, 3, 3, 3, 7, 3, 7>>

shifts == <<0, 3, 5, 7, 9, 12, 13>>
bits == <<7, 3, 3, 3, 7, 1, 7>>

\* the flattening without the final [:, ::-1]
FlattenRowUnreversed(row) ==
    Slice(row, 0, 55) \o Slice(row, 165, 365) \o Slice(row, 1165, 1455)

\* np.hstack([fcf3, fcf2, fcf1])[:, ::-1] for one row
FlattenRow(row) ==
    LET fcf1 == Slice(row, 1165, 1455)
        fcf2 == Slice(row, 165, 365)
        fcf3 == Slice(row, 0, 55)
    IN  Reverse(fcf3 \o fcf2 \o fcf1)

\* word >> shifts & bits  (>> binds tighter than &)
DecodeWord(word) ==
    [k \in 1..Len(shifts) |-> BitAnd(RightShift(word, shifts[k]), bits[k])]

\* fcf[:, :, None] >> shifts & bits over the flattened array
DecodeFcf(raw) ==
    [f \in 1..Len(raw) |->
        LET bins == FlattenRow(raw[f])
        IN  [j \in 1..Len(bins) |-> DecodeWord(bins[j])]]

(***************************************************************************)
(* height: three bands, in thousandths of a km.                            *)
(* (i + 0.5) * step + offset = ((1000 i + 500) * step_milli) / 1000 + off  *)
(***************************************************************************)
Band(n, stepMilli, offsetMilli) ==
    [i \in 1..n |-> (((i - 1) * 1000 + 500) * stepMilli) \div 1000 + offsetMilli]

\* the middle band started at 8.0 km, the top band at 20.3 km
height2Low == Band(200, 60, 8000)
height3High == Band(55, 180, 20300)

height1 == Band(290, 30, -500)
height2 == Band(200, 60, 8200)
height3 == Band(55, 180, 20200)
Height == height1 \o height2 \o height3

(***************************************************************************)
(* time: decoding of one yymmdd.ffffffff value v = [date, frac].           *)
(***************************************************************************)
IsLeap(y) == (y % 4 = 0 /\ y % 100 # 0) \/ y % 400 = 0

DaysIn(y, m) ==
    IF m = 2 THEN (IF IsLeap(y) THEN 29 ELSE 28)
    ELSE IF m \in {4, 6, 9, 11} THEN 30 ELSE 31

\* (v + 2e7).astype(int), read as %Y%m%d, plus v % 1 days
DecodeTime(v) ==
    LET yymmdd == v.date + 20000000
        y == yymmdd \div 10000
        m == (yymmdd \div 100) % 100
        d == yymmdd % 100
    IN  [valid |-> m \in 1..12 /\ d \in 1..DaysIn(y, m),
         year |-> y, month |-> m, day |-> d, ff |-> v.frac]

(***************************************************************************)
(* The file behind the handle.  A file is described by the dataset it      *)
(* lacks (if any), the width of Feature_Classification_Flags, the two      *)
(* parameters of its flag words and the date of its profiles.              *)
(***************************************************************************)
DatasetNames ==
    {"Longitude", "Latitude", "Profile_UTC_Time", "Feature_Classification_Flags"}

MkFile(absent, ncols, base, stride, date) ==
    [absent |-> absent, ncols |-> ncols, base |-> base, stride |-> stride,
     date |-> date]

Files ==
    {MkFile("none", 5515, 0, 1, 210115),
     MkFile("none", 5515, 40000, 4099, 240229),
     MkFile("none", 1454, 0, 1, 210115),
     MkFile("none", 5516, 0, 1, 210115),
     MkFile("Latitude", 5515, 0, 1, 210115),
     MkFile("Feature_Classification_Flags", 5515, 0, 1, 210115),
     MkFile("none", 5515, 0, 1, 211301)}

\* the flag word at row f (1-based), column c (0-based)
RawWord(file, f, c) ==
    (file.base + (f - 1) * 7919 + c * file.stride) % (MaxWord + 1)

Dataset(file, name) ==
    CASE name = "Longitude" ->
            [f \in 1..NRec |-> <<100000 + f, 100500 + f, 99500 + f>>]
      [] name = "Latitude" ->
            [f \in 1..NRec |-> <<-30000 - f, -29500 - f, -30500 - f>>]
      [] name = "Profile_UTC_Time" ->
            [f \in 1..NRec |-> <<[date |-> file.date, frac |-> 12345678 + f]>>]
      [] name = "Feature_Classification_Flags" ->
            [f \in 1..NRec |-> [c \in 1..file.ncols |-> RawWord(file, f, c - 1)]]

(***************************************************************************)
(* Results of a property access.                                           *)
(***************************************************************************)
NoResult == [kind |-> "none"]
Value(v) == [kind |-> "value", val |-> v]
Raise(e) == [kind |-> "raise", err |-> e]

\* self.sd.select(name)[...]: the library serves the handle (live) or fails
Select(live, file, name) ==
    IF ~live \/ name = file.absent THEN Raise("HDF4Error")
    ELSE Value(Dataset(file, name))

\* ds[:, 0]
Column0(ds) == [f \in 1..Len(ds) |-> ds[f][1]]

lon(live, file) ==
    LET ds == Select(live, file, "Longitude")
    IN  IF ds.kind = "raise" THEN ds ELSE Value(Column0(ds.val))

lat(live, file) ==
    LET ds == Select(live, file, "Latitude")
    IN  IF ds.kind = "raise" THEN ds ELSE Value(Column0(ds.val))

time(live, file) ==
    LET ds == Select(live, file, "Profile_UTC_Time")
    IN  IF ds.kind = "raise" THEN ds
        ELSE LET yymmddff == Column0(ds.val)
                 t == [f \in 1..Len(yymmddff) |-> DecodeTime(yymmddff[f])]
             IN  IF \E f \in 1..Len(t) : ~t[f].valid THEN Raise("ValueError")
                 ELSE Value(t)

height == Value(Height)

fcf(live, file) ==
    LET ds == Select(live, file, "Feature_Classification_Flags")
    IN  IF ds.kind = "raise" THEN ds ELSE Value(DecodeFcf(ds.val))

Props == {"lon", "lat", "time", "height", "fcf"}

Get(p, live, file) ==
    CASE p = "lon" -> lon(live, file)
      [] p = "lat" -> lat(live, file)
      [] p = "time" -> time(live, file)
      [] p = "height" -> height
      [] p = "fcf" -> fcf(live, file)

(***************************************************************************)
(* State.                                                                  *)
(*   hdf              the file opened by __init__ (never written)          *)
(*   sdOpen           self.sd has not been ended                           *)
(*   endCalls         invocations of self.sd.end()                         *)
(*   closeCalls       explicit close() calls made by the caller            *)
(*   scope            position of the caller relative to a with block      *)
(*   usedAfterRelease self.sd.select was invoked after self.sd.end()       *)
(*   returned         per property, the outcome of its latest access       *)
(*   ops              operations performed on the reader so far            *)
(*   lastOp           the latest operation on the reader                   *)
(*   word, packedFrom, decoded   input and output of one word's decoding   *)
(***************************************************************************)
VARIABLES hdf, sdOpen, endCalls, closeCalls, scope, usedAfterRelease,
          returned, ops, lastOp, word, packedFrom, decoded

reader == <<hdf, sdOpen, endCalls, closeCalls, scope, usedAfterRelease,
            returned, ops, lastOp>>
decoder == <<word, packedFrom, decoded>>
vars == <<reader, decoder>>

Left == {"leftNormally", "leftByException"}

\* __init__: self.sd = SD(str(filepath), SDC.READ)
Init ==
    /\ hdf \in Files
    /\ sdOpen = TRUE
    /\ endCalls = 0
    /\ closeCalls = 0
    /\ scope = "outside"
    /\ usedAfterRelease = FALSE
    /\ returned = [p \in Props |-> NoResult]
    /\ ops = 0
    /\ lastOp = "init"
    /\ word = 0
    /\ packedFrom = <<>>
    /\ decoded = <<>>

\* The caller performs one more operation, op.
Perform(op) ==
    /\ ops < MaxOps
    /\ ops' = ops + 1
    /\ lastOp' = op

\* Where an exception raised by an operation leaves the caller: outside a with
\* block the caller has it; inside, it is caught in the body or unwinds the block.
AfterRaise(raised) ==
    IF scope = "inside" /\ raised THEN {"inside", "unwinding"} ELSE {scope}

\* close(): self.sd.end().  Ending an ended handle is the library's business:
\* it fails (raises) or does nothing.
close(raises) ==
    /\ raises \in (IF sdOpen THEN {FALSE} ELSE BOOLEAN)
    /\ endCalls' = endCalls + 1
    /\ sdOpen' = FALSE

\* an explicit reader.close()
Close ==
    /\ scope # "unwinding"
    /\ Perform("close")
    /\ \E raises \in BOOLEAN :
          /\ close(raises)
          /\ scope' \in AfterRaise(raises)
    /\ closeCalls' = closeCalls + 1
    /\ UNCHANGED <<hdf, usedAfterRelease, returned, decoder>>

\* with reader: __enter__ returns self
Enter ==
    /\ scope = "outside"
    /\ Perform("enter")
    /\ scope' = "inside"
    /\ UNCHANGED <<hdf, sdOpen, endCalls, closeCalls, usedAfterRelease,
                   returned, decoder>>

\* an __exit__ that closes only when the block raised nothing
ExitClosingOnSuccessOnly ==
    /\ scope \in {"inside", "unwinding"}
    /\ IF scope = "inside" THEN \E raises \in BOOLEAN : close(raises)
       ELSE UNCHANGED <<sdOpen, endCalls>>
    /\ scope' = (IF scope = "inside" THEN "leftNormally" ELSE "leftByException")
    /\ lastOp' = "exit"
    /\ UNCHANGED <<hdf, closeCalls, usedAfterRelease, returned, ops, decoder>>

\* leaving the with block, normally or by an exception: __exit__ calls close()
\* and returns None, so the exception (or the one close raised) goes on.
\* A block that was entered is always left: this is no operation the caller
\* may omit, so it is not counted against MaxOps.
Exit ==
    /\ scope \in {"inside", "unwinding"}
    /\ \E raises \in BOOLEAN : close(raises)
    /\ scope' = (IF scope = "inside" THEN "leftNormally" ELSE "leftByException")
    /\ lastOp' = "exit"
    /\ UNCHANGED <<hdf, closeCalls, usedAfterRelease, returned, ops, decoder>>

\* a property that ends the handle once it has read
AccessThenEnd(p) ==
    /\ scope # "unwinding"
    /\ Perform(p)
    /\ \E live \in (IF sdOpen THEN {TRUE} ELSE BOOLEAN) :
          LET r == Get(p, live, hdf)
          IN  /\ returned' = [returned EXCEPT ![p] = r]
              /\ scope' \in AfterRaise(r.kind = "raise")
    /\ usedAfterRelease' = (usedAfterRelease \/ (p # "height" /\ ~sdOpen))
    /\ close(FALSE)
    /\ UNCHANGED <<hdf, closeCalls, decoder>>

\* reader.p for a property p.  On an ended handle the select is still made;
\* what it gives is the library's business (it fails, or serves the data).
Access(p) ==
    /\ scope # "unwinding"
    /\ Perform(p)
    /\ \E live \in (IF sdOpen THEN {TRUE} ELSE BOOLEAN) :
          LET r == Get(p, live, hdf)
          IN  /\ returned' = [returned EXCEPT ![p] = r]
              /\ scope' \in AfterRaise(r.kind = "raise")
    /\ usedAfterRelease' = (usedAfterRelease \/ (p # "height" /\ ~sdOpen))
    /\ UNCHANGED <<hdf, sdOpen, endCalls, closeCalls, decoder>>

Next ==
    \/ Close
    \/ Enter
    \/ Exit
    \/ \E p \in Props : Access(p)

Spec == Init /\ [][Next]_vars

(***************************************************************************)
(* Decoding of single words: every word up to MaxWord, and every word      *)
(* packed from seven field values of the bit-field table.                  *)
(***************************************************************************)
TableShift == <<0, 3, 5, 7, 9, 12, 13>>
TableWidth == <<3, 2, 2, 2, 3, 1, 3>>

FieldRange(k) == 0..(2 ^ TableWidth[k] - 1)

FieldTuples ==
    {<<f0, f1, f2, f3, f4, f5, f6>> :
        f0 \in FieldRange(1), f1 \in FieldRange(2), f2 \in FieldRange(3),
        f3 \in FieldRange(4), f4 \in FieldRange(5), f5 \in FieldRange(6),
        f6 \in FieldRange(7)}

RECURSIVE PackFrom(_, _)
PackFrom(f, k) ==
    IF k > Len(f) THEN 0 ELSE f[k] * 2 ^ TableShift[k] + PackFrom(f, k + 1)

\* the sum of f_k * 2^shift_k
Pack(f) == PackFrom(f, 1)

InitDecode ==
    /\ hdf = MkFile("none", 5515, 0, 1, 210115)
    /\ sdOpen = TRUE
    /\ endCalls = 0
    /\ closeCalls = 0
    /\ scope = "outside"
    /\ usedAfterRelease = FALSE
    /\ returned = [p \in Props |-> NoResult]
    /\ ops = 0
    /\ lastOp = "init"
    /\ \/ word \in 0..MaxWord /\ packedFrom = <<>>
       \/ packedFrom \in FieldTuples /\ word = Pack(packedFrom)
    /\ decoded = <<>>

\* word >> shifts & bits on the drawn word
DecodeStep ==
    /\ decoded = <<>>
    /\ decoded' = DecodeWord(word)
    /\ UNCHANGED <<reader, word, packedFrom>>

SpecDecode == InitDecode /\ [][DecodeStep]_vars

(***************************************************************************)
(* Properties.                                                             *)
(***************************************************************************)

\* C1: a with block used without explicit close() (enter, property accesses,
\* exit) has invoked self.sd.end() exactly once when it has been left, whether
\* the body ended normally or a property access in it raised.
C1_ScopedUseReleasesOnce ==
    (scope \in Left /\ closeCalls = 0) => endCalls = 1

C1_LeftByFailedAccess ==
    /\ scope = "leftByException"
    /\ lastOp = "exit"
    /\ closeCalls = 0
    /\ endCalls = 1
    /\ \E p \in Props : returned[p].kind = "raise"

\* C2: over any sequence of close() calls and scoped exits the handle release
\* self.sd.end() is invoked at most once.
C2_ReleaseNeverInvokedTwice == endCalls <= 1

\* C3: once the handle has been released, no access of lon, lat, time or fcf
\* performs a select on it.
C3_NoSelectOnReleasedHandle == ~usedAfterRelease

\* C4: when Feature_Classification_Flags is not 5515 columns wide, an fcf access
\* raises and returns no array.
C4_WrongWidthRaises ==
    (hdf.ncols # 5515 /\ returned["fcf"] # NoResult)
        => returned["fcf"].kind = "raise"

\* C5: every field k of a decoded word is (word >> shift_k) & (2^width_k - 1),
\* with the shifts and widths of the bit-field table.
C5_FieldIsShiftThenMask ==
    decoded # <<>> =>
        /\ Len(decoded) = 7
        /\ \A k \in 1..7 :
              decoded[k] = (word \div 2 ^ TableShift[k]) % 2 ^ TableWidth[k]

C5_AllOnesDecoded ==
    /\ word = 65535
    /\ decoded = <<7, 3, 3, 3, 7, 1, 7>>

\* the raw column (0-based) that output bin j (0-based) comes from
SourceColumn(j) ==
    IF j <= 289 THEN 1454 - j ELSE IF j <= 489 THEN 654 - j ELSE 544 - j

\* C6: for a 5515-column row, fcf decodes 545 bins, bin j being raw column
\* 1454 - j (j in 0..289), 654 - j (j in 290..489), 544 - j (j in 490..544),
\* in step with the 290, 200 and 55 bins of the bands of height.
C6_BinsAreReversedBands ==
    (hdf.ncols = 5515 /\ returned["fcf"].kind = "value") =>
        LET out == returned["fcf"].val
        IN  /\ Len(out) = NRec
            /\ \A f \in 1..NRec :
                  /\ Len(out[f]) = 545
                  /\ \A j \in 0..544 :
                        Pack(out[f][j + 1]) = RawWord(hdf, f, SourceColumn(j))
            /\ Len(height1) = 290 /\ Len(height2) = 200 /\ Len(height3) = 55

C6_SentinelRowFlattened ==
    /\ hdf = MkFile("none", 5515, 0, 1, 210115)
    /\ lastOp = "fcf"
    /\ returned["fcf"].kind = "value"
    /\ Pack(returned["fcf"].val[1][1]) = 1454
    /\ Pack(returned["fcf"].val[1][291]) = 364
    /\ Pack(returned["fcf"].val[1][545]) = 0

\* C7 as stated: the grid's boundary values are -0.485, 8.185, 8.23, 20.17,
\* 20.29 and, at index 544, 30.11 km.
C7_BoundaryValuesAsStated ==
    returned["height"] # NoResult =>
        LET h == returned["height"].val
        IN  /\ h[1] = -485 /\ h[290] = 8185
            /\ h[291] = 8230 /\ h[490] = 20170
            /\ h[491] = 20290 /\ h[545] = 30110

\* C7, amended: the grid's boundary values are -0.485, 8.185, 8.23, 20.17,
\* 20.29 and, at index 544, 30.01 km.
C7_BoundaryValues ==
    returned["height"] # NoResult =>
        /\ returned["height"].kind = "value"
        /\ LET h == returned["height"].val
           IN  /\ h[1] = -485 /\ h[290] = 8185
               /\ h[291] = 8230 /\ h[490] = 20170
               /\ h[491] = 20290 /\ h[545] = 30010

C7_HeightRead ==
    /\ lastOp = "height"
    /\ returned["height"].kind = "value"
    /\ returned["height"].val[545] = 30010

\* C8: whatever the file holds and whether or not the handle is open, height
\* returns 545 values, strictly increasing over the whole grid.
C8_GridIsIncreasing ==
    returned["height"] # NoResult =>
        /\ returned["height"].kind = "value"
        /\ LET h == returned["height"].val
           IN  /\ Len(h) = 545
               /\ \A i \in 1..544 : h[i] < h[i + 1]

C8_HeightReadOnEndedHandle ==
    /\ lastOp = "height"
    /\ ~sdOpen
    /\ hdf.absent # "none"
    /\ returned["height"].kind = "value"
    /\ returned["height"].val[290] < returned["height"].val[291]
    /\ returned["height"].val[490] < returned["height"].val[491]

\* C9: a word packed from seven field values within the table's ranges
\* decodes back to exactly those values.
C9_DecodeInvertsPack ==
    (packedFrom # <<>> /\ decoded # <<>>) => decoded = packedFrom

C9_PackedWordDecoded ==
    /\ packedFrom = <<5, 2, 1, 3, 6, 1, 4>>
    /\ word = 5 + 2 * 8 + 1 * 32 + 3 * 128 + 6 * 512 + 1 * 4096 + 4 * 8192
    /\ decoded = packedFrom

\* C10: a property access leaves the file, the handle and the count of its
\* releases as they were, and on an open reader a property accessed again
\* returns what it returned before.
C10_AccessLeavesReaderUnchanged ==
    [][(lastOp' \in Props /\ ops' = ops + 1) =>
          /\ hdf' = hdf
          /\ sdOpen' = sdOpen
          /\ endCalls' = endCalls
          /\ \A p \in Props :
                (sdOpen /\ returned[p] # NoResult) => returned'[p] = returned[p]
      ]_vars

C10_SamePropertyReadTwice ==
    /\ ops = 2
    /\ lastOp = "fcf"
    /\ closeCalls = 0
    /\ scope = "outside"
    /\ sdOpen
    /\ returned["fcf"].kind = "value"
    /\ \A p \in Props \ {"fcf"} : returned[p] = NoResult

====
